---- MODULE Spec2Model ----
(***************************************************************************)
(* ShortenWorker of main.py: the background thread that loads a workbook,  *)
(* shortens every URL of column 2 through the xgd.io API, writes the short *)
(* URLs to column 3 and saves the workbook in place, together with the     *)
(* presentation thread's cooperative stop request (Spec, FairSpec); and    *)
(* MainWindow with SettingsDialog, the presentation thread's handlers over *)
(* the workers they start, each worker's run() collapsed to its lifecycle  *)
(* (GuiSpec).                                                              *)
(*                                                                         *)
(* The URL column holds text or nothing (a column of URLs, spec section 6).*)
(***************************************************************************)
EXTENDS Integers, Sequences, FiniteSets, TLC

\* ------------------------------------------------------------------ bounds
\* Last row of the active sheet; the sheet's data rows are FirstRow..MaxRow.
MaxRow == 4
\* The number of workers MainWindow starts in one session.
MaxWorkers == 2

\* ------------------------------------------------------- program constants
FirstRow == 2
StatusOk == 200

\* --------------------------------------------------------------- the values
None == "None"
Rows == FirstRow..MaxRow
Urls == {"http://a.com", "http://b.com"}
\* The workbooks explored hold the two URLs in alternating rows; any URL cell
\* may be empty instead.
UrlAt(r) == IF r % 2 = 0 THEN "http://a.com" ELSE "http://b.com"
ShortUrls == {"http://x/1"}
OldOutput == "http://old"
DefaultError == "unknown error"

\* What requests.get(api_url) followed by response.json() can produce for one
\* row: a JSON object (its status, and its shorturl and error fields, None when
\* the key is absent), a requests.RequestException, or any other Exception
\* (a body that is not JSON, a JSON value that is not an object, ...).
JsonResponses ==
    [kind : {"json"}, status : {StatusOk}, shorturl : ShortUrls \cup {None}, error : {None}]
    \cup [kind : {"json"}, status : {400}, shorturl : {None}, error : {"bad url", None}]
Raised(k) == [kind |-> k, status |-> 0, shorturl |-> None, error |-> None]
Responses == JsonResponses \cup {Raised("RequestException"), Raised("Exception")}
NoResponse == Raised("none")

\* What workbook.save(save_path) can do.
SaveOutcomes == {"ok", "FileNotFoundError", "Exception"}

VARIABLES
    fileState,        \* the input file: "present", "missing", "unreadable"
    urlColumn,        \* column 2 of the file, by row
    disk,             \* column 3 of the file on disk, by row
    fileDamaged,      \* a save that raised left the file truncated
    pc,               \* where run() is
    is_running,       \* self.is_running
    sheet,            \* column 3 of the in-memory workbook, by row
    urls_to_shorten,  \* the collected cells, as their rows
    i,                \* the loop index of enumerate(urls_to_shorten)
    events,           \* every signal emitted so far, in emission order
    resp,             \* history: the API outcome of each row
    written,          \* history: the rows whose output cell was assigned
    stopAt,           \* history: where run() was (pc, i) at the first stop()
    saveOutcome,      \* history: what workbook.save did
    original          \* history: column 3 of the file before the run

runVars == <<fileState, urlColumn, disk, fileDamaged, pc, is_running, sheet,
             urls_to_shorten, i, events, resp, written, stopAt, saveOutcome,
             original>>

VARIABLES
    workers,            \* every ShortenWorker created, in creation order
    worker,             \* self.worker: an index of workers, 0 for None
    lineEdit_filepath,  \* the selected file path, "" when none
    settings,           \* setting.ini: its state and the raw api_key value
    textEdit_log,       \* the lines of the log text area
    pushButton_start,   \* the caption of the start/cancel button
    progressBar,        \* the value of the progress bar
    gui,                \* the presentation thread: "idle", "closing"
                        \* (closeEvent blocked in wait), "closed", "crashed"
    lastAccepted        \* history: the key of the last accepted dialog

guiVars == <<workers, worker, lineEdit_filepath, settings, textEdit_log,
             pushButton_start, progressBar, gui, lastAccepted>>

vars == <<runVars, guiVars>>

total_urls == Len(urls_to_shorten)

\* ------------------------------------------------------------- the signals
Event(sig, kind, row, value, url, detail) ==
    [sig |-> sig, kind |-> kind, row |-> row, value |-> value, url |-> url,
     detail |-> detail]
ProgressEvent(value, row, url) == Event("progress_updated", "progress", row, value, url, None)
LogEvent(kind, row, url, detail) == Event("log_updated", kind, row, 0, url, detail)
FinishedEvent(msg) == Event("finished", msg, 0, 0, None, None)

\* ---------------------------------------------------------------- helpers
\* Mutant of Truthy: the emptiness test of line 29 is missing.
TruthyAlways(v) == TRUE

\* `if cell.value:` on a text-or-empty cell.
Truthy(v) == v # None

\* Mutant of CollectFrom: the cells are collected bottom-up.
RECURSIVE CollectReversed(_, _)
CollectReversed(r, col) ==
    IF r > MaxRow THEN <<>>
    ELSE CollectReversed(r + 1, col) \o (IF Truthy(col[r]) THEN <<r>> ELSE <<>>)

\* Lines 26-30: the non-empty cells of column 2 from row 2 on, in row order.
RECURSIVE CollectFrom(_, _)
CollectFrom(r, col) ==
    IF r > MaxRow THEN <<>>
    ELSE (IF Truthy(col[r]) THEN <<r>> ELSE <<>>) \o CollectFrom(r + 1, col)

\* Mutant of Percent: the share of the cells still to do.
PercentRemaining(idx, total) == ((total - idx) * 100) \div total

\* int((i / total_urls) * 100).  The float product equals the exact quotient's
\* floor for every total_urls below 50 (29/50 is the first that falls short).
Percent(idx, total) == (idx * 100) \div total

\* Mutant of ShouldBreak: the loop never looks at the stop flag.
NeverBreak(running) == FALSE

\* Mutant of ShouldBreak: the test of the stop flag is negated.
BreakWhenRunning(running) == running

\* `if not self.is_running: break`
ShouldBreak(running) == ~running

\* Mutant of StatusIsOk: any JSON answer counts as a success.
StatusIsAny(r) == r.status # 0

\* `if response_json.get("status") == 200:`
StatusIsOk(r) == r.status = StatusOk

\* Mutants of ShouldSave: the stop flag is not consulted, or is negated.
ShouldSaveAlways(running) == TRUE
ShouldSaveInverted(running) == ~running

\* `if self.is_running:` after the loop
ShouldSave(running) == running

\* response_json.get("error", "不明なエラー")
ErrorMessage(r) == IF r.error = None THEN DefaultError ELSE r.error

\* Mutant of CaughtPerRow: the catch-all handler of lines 59-60 is missing.
CaughtOnlyRequestException(r) == r.kind = "RequestException"

\* Mutant of CaughtPerRow: the call is not wrapped in a try block at all.
CaughtNone(r) == FALSE

\* Lines 57-60: `except requests.RequestException` then `except Exception`
\* around the call and the handling of its response: every exception raised
\* there is caught and logged for the row.
CaughtPerRow(r) == r.kind \in {"RequestException", "Exception"}
PerRowLogKind(r) == IF r.kind = "RequestException" THEN "request_error" ELSE "error"

\* ------------------------------------------------------------------- Init
\* The presentation layer's variables while run() is explored in full.
NoKey == <<"-">>
GuiParked ==
    /\ workers = <<>>
    /\ worker = 0
    /\ lineEdit_filepath = ""
    /\ settings = [state |-> "missing", value |-> <<>>]
    /\ textEdit_log = <<>>
    /\ pushButton_start = "start"
    /\ progressBar = 0
    /\ gui = "idle"
    /\ lastAccepted = NoKey

Init ==
    /\ fileState \in {"present", "missing", "unreadable"}
    /\ IF fileState = "present"
       THEN /\ urlColumn \in {f \in [Rows -> Urls \cup {None}] :
                                \A r \in Rows : f[r] \in {UrlAt(r), None}}
            /\ \E old \in {None, OldOutput} : disk = [r \in Rows |-> old]
       ELSE /\ urlColumn = [r \in Rows |-> None]
            /\ disk = [r \in Rows |-> None]
    /\ fileDamaged = FALSE
    /\ pc = "start"
    /\ is_running = TRUE
    /\ sheet = [r \in Rows |-> None]
    /\ urls_to_shorten = <<>>
    /\ i = 0
    /\ events = <<>>
    /\ resp = [r \in Rows |-> NoResponse]
    /\ written = {}
    /\ stopAt = [pc |-> "none", i |-> 0]
    /\ saveOutcome = "none"
    /\ original = disk
    /\ GuiParked

\* ---------------------------------------------------------------- actions
\* Mutant of AfterCollect: the `return` of line 35 is missing.
AfterCollectNoReturn(cells) ==
    /\ events' = IF Len(cells) = 0
                 THEN Append(events, FinishedEvent("NoUrls"))
                 ELSE events
    /\ pc' = "loop"

\* Lines 32-35: `if total_urls == 0:` emits the terminal message and returns.
AfterCollect(cells) ==
    IF Len(cells) = 0
    THEN /\ events' = Append(events, FinishedEvent("NoUrls"))
         /\ pc' = "finished"
    ELSE /\ events' = events
         /\ pc' = "loop"

\* Mutant of LoadFailureMessage: the FileNotFoundError handler is missing.
LoadFailureGeneric(state) == "Unexpected"

\* Lines 71-74: what the outer handlers emit when load_workbook raises.
LoadFailureMessage(state) ==
    IF state = "missing" THEN "FileNotFound" ELSE "Unexpected"

\* Lines 22-35 (and the handlers of lines 71-74): load, collect, empty check.
Load ==
    /\ UNCHANGED guiVars
    /\ pc = "start"
    /\ UNCHANGED <<fileState, urlColumn, disk, fileDamaged, is_running, i,
                   resp, written, stopAt, saveOutcome, original>>
    /\ IF fileState # "present"
       THEN /\ events' = Append(events, FinishedEvent(LoadFailureMessage(fileState)))
            /\ pc' = "finished"
            /\ UNCHANGED <<sheet, urls_to_shorten>>
       ELSE /\ sheet' = disk
            /\ urls_to_shorten' = CollectFrom(FirstRow, urlColumn)
            /\ AfterCollect(urls_to_shorten')

\* Lines 37-42 and 62: the head of one iteration.  The loop ends when the
\* cells are exhausted or when the stop flag is seen; both paths reach the
\* final progress emission of line 62.
LoopHead ==
    /\ UNCHANGED guiVars
    /\ pc = "loop"
    /\ UNCHANGED <<fileState, urlColumn, disk, fileDamaged, is_running, sheet,
                   urls_to_shorten, i, resp, written, stopAt, saveOutcome,
                   original>>
    /\ IF i >= total_urls \/ ShouldBreak(is_running)
       THEN /\ events' = Append(events, ProgressEvent(100, 0, "done"))  \* (100, "完了")
            /\ pc' = "check"
       ELSE LET row == urls_to_shorten[i + 1] IN
            /\ events' = Append(events,
                   ProgressEvent(Percent(i, total_urls), row, urlColumn[row]))
            /\ pc' = "request"

\* Mutant of HandleRow: the long URL is written where the short one belongs.
HandleRowWritesUrl(r) ==
    LET row == urls_to_shorten[i + 1]
        url == urlColumn[row]
    IN  /\ resp' = [resp EXCEPT ![row] = r]
        /\ IF r.kind = "json" /\ StatusIsOk(r)
           THEN /\ sheet' = [sheet EXCEPT ![row] = url]
                /\ written' = written \cup {row}
                /\ events' = Append(events, LogEvent("success", row, url, r.shorturl))
           ELSE /\ events' = Append(events,
                       LogEvent(IF r.kind = "json" THEN "failure" ELSE PerRowLogKind(r),
                                row, url, None))
                /\ UNCHANGED <<sheet, written>>
        /\ i' = i + 1
        /\ pc' = "loop"

\* Lines 44-60: the API call of the current cell and the handling of its
\* outcome, including both per-row exception handlers.
HandleRow(r) ==
    LET row == urls_to_shorten[i + 1]
        url == urlColumn[row]
    IN  /\ resp' = [resp EXCEPT ![row] = r]
        /\ IF r.kind = "json"
           THEN /\ IF StatusIsOk(r)
                   THEN /\ sheet' = [sheet EXCEPT ![row] = r.shorturl]
                        /\ written' = written \cup {row}
                        /\ events' = Append(events, LogEvent("success", row, url, r.shorturl))
                   ELSE /\ events' = Append(events, LogEvent("failure", row, url, ErrorMessage(r)))
                        /\ UNCHANGED <<sheet, written>>
                /\ i' = i + 1
                /\ pc' = "loop"
           ELSE IF CaughtPerRow(r)
           THEN /\ events' = Append(events, LogEvent(PerRowLogKind(r), row, url, None))
                /\ UNCHANGED <<sheet, written>>
                /\ i' = i + 1
                /\ pc' = "loop"
           ELSE \* an exception no per-row handler catches reaches line 73
                /\ events' = Append(events, FinishedEvent("Unexpected"))
                /\ UNCHANGED <<sheet, written, i>>
                /\ pc' = "finished"

Request ==
    /\ UNCHANGED guiVars
    /\ pc = "request"
    /\ \E r \in Responses : HandleRow(r)
    /\ UNCHANGED <<fileState, urlColumn, disk, fileDamaged, is_running,
                   urls_to_shorten, stopAt, saveOutcome, original>>

\* Lines 64 and 68-69: the post-loop read of the stop flag.
CheckRunning ==
    /\ UNCHANGED guiVars
    /\ pc = "check"
    /\ IF ShouldSave(is_running)
       THEN /\ pc' = "save"
            /\ events' = events
       ELSE /\ pc' = "finished"
            /\ events' = Append(events, FinishedEvent("Interrupted"))
    /\ UNCHANGED <<fileState, urlColumn, disk, fileDamaged, is_running, sheet,
                   urls_to_shorten, i, resp, written, stopAt, saveOutcome,
                   original>>

\* Mutant of SaveResult: the completion message is emitted before the save.
SaveResultEmitFirst(o) ==
    /\ saveOutcome' = o
    /\ IF o = "ok"
       THEN /\ disk' = sheet
            /\ fileDamaged' = FALSE
            /\ events' = Append(events, FinishedEvent("Completed"))
       ELSE /\ disk' = disk
            /\ fileDamaged' \in BOOLEAN
            /\ events' = Append(Append(events, FinishedEvent("Completed")),
                   FinishedEvent(IF o = "FileNotFoundError" THEN "FileNotFound"
                                 ELSE "Unexpected"))
    /\ pc' = "finished"

\* Mutant of SaveResult: the completion message does not wait for the save.
SaveResultAlwaysCompleted(o) ==
    /\ saveOutcome' = o
    /\ disk' = IF o = "ok" THEN sheet ELSE disk
    /\ fileDamaged' = (o # "ok")
    /\ events' = Append(events, FinishedEvent("Completed"))
    /\ pc' = "finished"

\* Lines 65-67 (and the handlers of lines 71-74): workbook.save in place.
\* A save that raises leaves the file as it was or truncated.
SaveResult(o) ==
    /\ saveOutcome' = o
    /\ IF o = "ok"
       THEN /\ disk' = sheet
            /\ fileDamaged' = FALSE
            /\ events' = Append(events, FinishedEvent("Completed"))
       ELSE /\ disk' = disk
            /\ fileDamaged' \in BOOLEAN
            /\ events' = Append(events,
                   FinishedEvent(IF o = "FileNotFoundError" THEN "FileNotFound"
                                 ELSE "Unexpected"))
    /\ pc' = "finished"

Save ==
    /\ UNCHANGED guiVars
    /\ pc = "save"
    /\ \E o \in SaveOutcomes : SaveResult(o)
    /\ UNCHANGED <<fileState, urlColumn, is_running, sheet, urls_to_shorten,
                   i, resp, written, stopAt, original>>

\* run() returns and the thread ends: isRunning() turns false.
Exit ==
    /\ UNCHANGED guiVars
    /\ pc = "finished"
    /\ pc' = "exited"
    /\ UNCHANGED <<fileState, urlColumn, disk, fileDamaged, is_running, sheet,
                   urls_to_shorten, i, events, resp, written, stopAt,
                   saveOutcome, original>>

\* Lines 76-77, called from the presentation thread while the worker's
\* isRunning() holds (lines 125-126 and 167-168).
Stop ==
    /\ UNCHANGED guiVars
    /\ pc # "exited"
    /\ is_running' = FALSE
    /\ stopAt' = IF stopAt.pc = "none" THEN [pc |-> pc, i |-> i] ELSE stopAt
    /\ UNCHANGED <<fileState, urlColumn, disk, fileDamaged, pc, sheet,
                   urls_to_shorten, i, events, resp, written, saveOutcome,
                   original>>

\* --------------------------------------------------------- specification
Next == Load \/ LoopHead \/ Request \/ CheckRunning \/ Save \/ Exit \/ Stop

Spec == Init /\ [][Next]_vars

\* The worker is a thread of its own: whatever step run() is at is eventually
\* taken (load_workbook, requests.get and workbook.save return or raise).
\* stop() is the user's and may never come.
Fairness ==
    /\ WF_vars(Load) /\ WF_vars(LoopHead) /\ WF_vars(Request)
    /\ WF_vars(CheckRunning) /\ WF_vars(Save) /\ WF_vars(Exit)

FairSpec == Spec /\ Fairness

\* ================================================= the presentation layer
\* The texts typed into the settings dialog, as sequences of characters.
TestKeys == {<<>>, <<"k">>, <<" ", "k">>, <<"%", "%">>, <<"k", "%">>}
SelectedFile == "book.xlsx"

\* configparser, as SettingsDialog.accept and start_shortening use it.
\* Parsing strips the white space around a value.
RECURSIVE LStrip(_)
LStrip(t) == IF t # <<>> /\ Head(t) = " " THEN LStrip(Tail(t)) ELSE t
RECURSIVE RStrip(_)
RStrip(t) ==
    IF t # <<>> /\ t[Len(t)] = " " THEN RStrip(SubSeq(t, 1, Len(t) - 1)) ELSE t
Strip(t) == LStrip(RStrip(t))

\* BasicInterpolation.before_set: value.replace('%%', ''), and a '%' that is
\* left makes set() raise ValueError.
RECURSIVE DropPercentPairs(_)
DropPercentPairs(t) ==
    IF t = <<>> THEN <<>>
    ELSE IF Len(t) >= 2 /\ t[1] = "%" /\ t[2] = "%"
    THEN DropPercentPairs(SubSeq(t, 3, Len(t)))
    ELSE <<Head(t)>> \o DropPercentPairs(Tail(t))
SetRaises(t) == \E k \in 1..Len(DropPercentPairs(t)) : DropPercentPairs(t)[k] = "%"

\* BasicInterpolation.before_get: '%%' reads as '%'; a lone '%' makes get()
\* raise InterpolationSyntaxError.
GetRaises(t) == SetRaises(t)
RECURSIVE Interpolate(_)
Interpolate(t) ==
    IF t = <<>> THEN <<>>
    ELSE IF Len(t) >= 2 /\ t[1] = "%" /\ t[2] = "%"
    THEN <<"%">> \o Interpolate(SubSeq(t, 3, Len(t)))
    ELSE <<Head(t)>> \o Interpolate(Tail(t))

\* config.get("Settings", "api_key") on a file holding `api_key = <raw>`.
ReadKey(raw) == Interpolate(Strip(raw))

\* Line 136: the file is missing, unreadable or has no api_key option.
KeyMissing(st) == st.state \in {"missing", "no_option"}

\* Mutant of KeyEmpty: the emptiness test of line 141 is missing.
KeyEmptyNever(k) == FALSE

\* Line 141: `if not api_key:`
KeyEmpty(k) == k = <<>>

\* QThread.isRunning() of worker w.
IsRunning(w) == workers[w].phase # "exited"

\* Mutant of Busy: the running worker is not looked at.
BusyNever(w) == FALSE

\* Line 125 (and 167): `self.worker and self.worker.isRunning()`
Busy(w) == w # 0 /\ IsRunning(w)

\* ShortenWorker.__init__ (lines 15-19) followed by start(); the history
\* fields record the key last accepted in the dialog and whether another
\* worker's thread was still running.
NewWorker(filepath, api_key) ==
    [filepath |-> filepath, api_key |-> api_key, is_running |-> TRUE,
     phase |-> "running", queued |-> FALSE,
     accepted |-> lastAccepted,
     overlapped |-> \E w \in 1..Len(workers) : IsRunning(w),
     orphaned |-> FALSE]

\* ShortenWorker.stop() on worker w (lines 76-77).
Stopped(w) == [workers EXCEPT ![w].is_running = FALSE]

GuiInit ==
    /\ workers = <<>>
    /\ worker = 0
    /\ lineEdit_filepath = ""
    /\ settings \in {[state |-> "missing", value |-> <<>>],
                     [state |-> "no_option", value |-> <<>>],
                     [state |-> "key", value |-> <<"k">>],
                     [state |-> "key", value |-> <<"k", "%">>]}
    /\ textEdit_log = <<>>
    /\ pushButton_start = "start"
    /\ progressBar = 0
    /\ gui = "idle"
    /\ lastAccepted = NoKey
    \* run() is not explored step by step here
    /\ fileState = "missing"
    /\ urlColumn = [r \in Rows |-> None]
    /\ disk = [r \in Rows |-> None]
    /\ fileDamaged = FALSE
    /\ pc = "start"
    /\ is_running = TRUE
    /\ sheet = [r \in Rows |-> None]
    /\ urls_to_shorten = <<>>
    /\ i = 0
    /\ events = <<>>
    /\ resp = [r \in Rows |-> NoResponse]
    /\ written = {}
    /\ stopAt = [pc |-> "none", i |-> 0]
    /\ saveOutcome = "none"
    /\ original = disk

\* Lines 114-118: a file is picked in the dialog.
SelectFile ==
    /\ gui = "idle"
    /\ lineEdit_filepath' = SelectedFile
    /\ textEdit_log' = <<>>
    /\ UNCHANGED <<workers, worker, settings, pushButton_start, progressBar,
                   gui, lastAccepted>>
    /\ UNCHANGED runVars

\* Lines 120-122, 84-91 and 93-97: the settings dialog is opened, key is typed
\* and the dialog accepted.  load_settings reads the stored key with get(),
\* which raises on a lone '%' in the file; set() raises on a lone '%' in key
\* before the file is opened.  Either exception leaves the slot and PyQt
\* aborts the application.
AcceptSettings(key) ==
    /\ gui = "idle"
    /\ IF \/ settings.state = "key" /\ GetRaises(Strip(settings.value))
          \/ key # <<>> /\ SetRaises(key)
       THEN /\ gui' = "crashed"
            /\ UNCHANGED <<settings, lastAccepted>>
       ELSE /\ settings' = [state |-> "key", value |-> key]
            /\ lastAccepted' = key
            /\ gui' = gui
    /\ UNCHANGED <<workers, worker, lineEdit_filepath, textEdit_log,
                   pushButton_start, progressBar>>
    /\ UNCHANGED runVars

OpenSettings == \E key \in TestKeys : AcceptSettings(key)

\* Lines 124-151: the start/cancel button is clicked.
start_shortening ==
    /\ gui = "idle"
    /\ UNCHANGED <<lineEdit_filepath, settings, progressBar, lastAccepted>>
    /\ UNCHANGED runVars
    /\ IF Busy(worker)
       THEN /\ workers' = Stopped(worker)
            /\ pushButton_start' = "start"
            /\ UNCHANGED <<worker, textEdit_log, gui>>
       ELSE IF lineEdit_filepath = ""
       THEN /\ textEdit_log' = <<"select_file">>
            /\ UNCHANGED <<workers, worker, pushButton_start, gui>>
       ELSE IF KeyMissing(settings)
       THEN /\ textEdit_log' = <<"no_api_key">>
            /\ UNCHANGED <<workers, worker, pushButton_start, gui>>
       ELSE IF GetRaises(Strip(settings.value))
       THEN /\ gui' = "crashed"
            /\ UNCHANGED <<workers, worker, pushButton_start, textEdit_log>>
       ELSE IF KeyEmpty(ReadKey(settings.value))
       THEN /\ textEdit_log' = <<"empty_api_key">>
            /\ UNCHANGED <<workers, worker, pushButton_start, gui>>
       ELSE /\ Len(workers) < MaxWorkers
            /\ textEdit_log' = <<>>
            /\ pushButton_start' = "busy"
            /\ workers' = Append(workers,
                   NewWorker(lineEdit_filepath, ReadKey(settings.value)))
            /\ worker' = Len(workers) + 1
            /\ gui' = gui

\* Worker w's run() reaches one of its finished.emit calls (lines 34, 67, 69,
\* 72, 74): the signal is queued for the presentation thread.
WorkerEmitsFinished(w) ==
    /\ gui # "crashed"
    /\ workers[w].phase = "running"
    /\ workers' = [workers EXCEPT ![w].phase = "emitted", ![w].queued = TRUE]
    /\ UNCHANGED <<worker, lineEdit_filepath, settings, textEdit_log,
                   pushButton_start, progressBar, gui, lastAccepted>>
    /\ UNCHANGED runVars

\* Worker w's run() returns and its thread ends.
WorkerExits(w) ==
    /\ gui # "crashed"
    /\ workers[w].phase = "emitted"
    /\ workers' = [workers EXCEPT ![w].phase = "exited"]
    /\ UNCHANGED <<worker, lineEdit_filepath, settings, textEdit_log,
                   pushButton_start, progressBar, gui, lastAccepted>>
    /\ UNCHANGED runVars

\* Lines 160-164: the queued finished signal of worker w is delivered.  The
\* reference is reset whatever worker it holds; dropping the last reference
\* to a QThread whose thread still runs destroys it while running, which
\* the application may or may not survive.
on_finished(w) ==
    /\ gui = "idle"
    /\ workers[w].queued
    /\ textEdit_log' = Append(textEdit_log, "finished")
    /\ progressBar' = 100
    /\ pushButton_start' = "start"
    /\ worker' = 0
    /\ workers' = [k \in 1..Len(workers) |->
                     [workers[k] EXCEPT
                        !.queued = IF k = w THEN FALSE ELSE @,
                        !.orphaned = IF k = worker /\ IsRunning(k) THEN TRUE ELSE @]]
    /\ IF Busy(worker) THEN gui' \in {"idle", "crashed"} ELSE gui' = gui
    /\ UNCHANGED <<lineEdit_filepath, settings, lastAccepted>>
    /\ UNCHANGED runVars

\* Lines 166-169: the window is closed; with a running worker behind
\* self.worker, stop() is called and wait() blocks the presentation thread.
closeEvent ==
    /\ gui = "idle"
    /\ IF Busy(worker)
       THEN /\ workers' = Stopped(worker)
            /\ gui' = "closing"
       ELSE /\ workers' = workers
            /\ gui' = "closed"
    /\ UNCHANGED <<worker, lineEdit_filepath, settings, textEdit_log,
                   pushButton_start, progressBar, lastAccepted>>
    /\ UNCHANGED runVars

\* Lines 169-170: wait() returns once the thread has ended; event.accept().
closeEventAccepts ==
    /\ gui = "closing"
    /\ ~IsRunning(worker)
    /\ gui' = "closed"
    /\ UNCHANGED <<workers, worker, lineEdit_filepath, settings, textEdit_log,
                   pushButton_start, progressBar, lastAccepted>>
    /\ UNCHANGED runVars

GuiNext ==
    \/ SelectFile
    \/ OpenSettings
    \/ start_shortening
    \/ \E w \in 1..Len(workers) : WorkerEmitsFinished(w)
    \/ \E w \in 1..Len(workers) : WorkerExits(w)
    \/ \E w \in 1..Len(workers) : on_finished(w)
    \/ closeEvent
    \/ closeEventAccepts

GuiSpec == GuiInit /\ [][GuiNext]_vars

\* ------------------------------------------------- vocabulary of the claims
IsProgress(e) == e.sig = "progress_updated"
IsLog(e) == e.sig = "log_updated"
IsFinished(e) == e.sig = "finished"

ProgressEvents == SelectSeq(events, IsProgress)
LogsOf(row) == SelectSeq(events, LAMBDA e : IsLog(e) /\ e.row = row)
LogKinds(row) == [k \in 1..Len(LogsOf(row)) |-> LogsOf(row)[k].kind]
FinishedAt == {k \in 1..Len(events) : IsFinished(events[k])}

NonDecreasing(s) == \A k \in 1..(Len(s) - 1) : s[k].value <= s[k + 1].value

\* The rows of the workbook whose URL cell is non-empty, and their number.
UrlRows == {r \in Rows : urlColumn[r] # None}
N == Cardinality(UrlRows)

Returned == pc \in {"finished", "exited"}
Terminal == events[Len(events)].kind
Called(row) == resp[row] # NoResponse

\* stop() was requested while the row loop could still see it / before the
\* post-loop read of the flag.
StoppedInLoop == stopAt.pc \in {"start", "loop", "request"}
StoppedBeforeCheck == stopAt.pc \in {"start", "loop", "request", "check"}

\* ------------------------------------------------------------------ claims
\* C1, as stated: an uncancelled run over a workbook with N >= 1 non-empty URL
\* cells emits exactly N progress events, non-decreasing, the last one 100.
C1_ExactlyNProgressEvents ==
    (fileState = "present" /\ N >= 1 /\ pc = "exited" /\ stopAt.pc = "none")
        => /\ Len(ProgressEvents) = N
           /\ NonDecreasing(ProgressEvents)
           /\ ProgressEvents[Len(ProgressEvents)].value = 100

\* C1, amended: progress values never decrease, and an uncancelled run over a
\* workbook with N >= 1 non-empty URL cells emits exactly N + 1 progress
\* events: one per URL cell, in row order, then a final one carrying 100.
C1_ProgressEvents ==
    /\ NonDecreasing(ProgressEvents)
    /\ (fileState = "present" /\ N >= 1 /\ Returned /\ stopAt.pc = "none")
        => /\ Len(ProgressEvents) = N + 1
           /\ ProgressEvents[N + 1].value = 100
           /\ \A k \in 1..N :
                /\ ProgressEvents[k].row \in UrlRows
                /\ ProgressEvents[k].url = urlColumn[ProgressEvents[k].row]
                /\ k < N => ProgressEvents[k].row < ProgressEvents[k + 1].row

C1_Witness ==
    /\ pc = "exited" /\ stopAt.pc = "none" /\ fileState = "present"
    /\ N >= 2 /\ N < Cardinality(Rows)
    /\ Len(ProgressEvents) = N + 1

\* C2: for every processed row, a response with status 200 sets the in-memory
\* output cell to the response's shorturl and emits one success log line; a
\* response with any other status leaves the cell unchanged and emits exactly
\* one failure log line.
C2_RowOutcome ==
    \A row \in Rows :
        resp[row].kind = "json" =>
            IF resp[row].status = 200
            THEN /\ sheet[row] = resp[row].shorturl
                 /\ LogKinds(row) = <<"success">>
                 /\ LogsOf(row)[1].detail = resp[row].shorturl
            ELSE /\ sheet[row] = original[row]
                 /\ row \notin written
                 /\ LogKinds(row) = <<"failure">>

C2_Witness ==
    \E r1, r2 \in Rows :
        /\ resp[r1].kind = "json" /\ resp[r1].status = 200
        /\ resp[r1].shorturl \in ShortUrls /\ original[r1] = OldOutput
        /\ resp[r2].kind = "json" /\ resp[r2].status = 400
        /\ original[r2] = OldOutput

\* C3: when stop() is requested between two rows (after row k, before row
\* k + 1, k < N), the worker never saves: the save is not called and column 3
\* of the file on disk stays as it was, whatever the earlier rows got.
C3_CancelBetweenRowsNeverSaves ==
    (stopAt.pc = "loop" /\ stopAt.i < total_urls)
        => /\ saveOutcome = "none"
           /\ pc # "save"
           /\ disk = original
           /\ ~fileDamaged
           /\ (Returned => Terminal = "Interrupted")

C3_Witness ==
    /\ stopAt.pc = "loop" /\ stopAt.i >= 1 /\ stopAt.i < total_urls
    /\ written # {} /\ sheet # original
    /\ pc = "exited"

\* C4: every run emits exactly one terminal message, whatever path it takes,
\* and that message is the last event the worker emits.
C4_OneTerminalMessageLast ==
    /\ Cardinality(FinishedAt) <= 1
    /\ Returned <=> Cardinality(FinishedAt) = 1
    /\ FinishedAt # {} => FinishedAt = {Len(events)}

C4_Witness ==
    /\ pc = "exited"
    /\ Len(events) >= 5
    /\ \E row \in Rows : Len(LogsOf(row)) = 1
    /\ FinishedAt = {Len(events)}

\* C5, as stated: an unexpected exception raised anywhere in the run, a row's
\* call and response handling included, aborts the run: no later row is
\* processed, the terminal message is the generic one, nothing is saved.
C5_AnyExceptionAborts ==
    /\ (fileState = "unreadable" /\ Returned) => Terminal = "Unexpected"
    /\ saveOutcome = "Exception" => Terminal = "Unexpected"
    /\ \A row \in Rows :
        resp[row].kind = "Exception" =>
            /\ \A later \in Rows : later > row => ~Called(later)
            /\ Returned => Terminal = "Unexpected"
            /\ saveOutcome # "ok"

\* C5, amended: an unexpected exception raised outside the per-row try block
\* (loading the workbook, saving it) aborts the run with the generic message
\* and nothing is persisted; one raised during a row's call or response
\* handling is caught for that row: one error log line, the row's output cell
\* untouched, and the run goes on with the rows after it.
C5_ExceptionHandling ==
    /\ (fileState = "unreadable" /\ pc # "start")
        => /\ events = <<FinishedEvent("Unexpected")>>
           /\ Returned
           /\ saveOutcome = "none" /\ disk = original
           /\ \A row \in Rows : ~Called(row)
    /\ saveOutcome = "Exception"
        => /\ Returned /\ Terminal = "Unexpected"
           /\ disk = original
    /\ \A row \in Rows :
        resp[row].kind = "Exception" =>
            /\ LogKinds(row) = <<"error">>
            /\ row \notin written /\ sheet[row] = original[row]
            /\ (Returned /\ Terminal = "Unexpected") => saveOutcome = "Exception"
            /\ (pc \in {"check", "save", "finished", "exited"} /\ ~StoppedInLoop)
                => \A later \in UrlRows : Called(later)

C5_Witness ==
    /\ pc = "exited" /\ saveOutcome = "ok"
    /\ \E row, later \in Rows :
        /\ row < later
        /\ resp[row].kind = "Exception"
        /\ later \in written

\* The final progress emission of line 62 happened: the row loop has ended
\* without an exception leaving it.
LoopEnded == \E k \in 1..Len(events) : IsProgress(events[k]) /\ events[k].row = 0

\* C6, as stated: a network/transport error on row k does not abort the run:
\* one log line for row k, its output cell not written, every later row still
\* processed unless cancellation is requested, and an uncancelled run still
\* saves the workbook at the end.
C6_RequestErrorRunStillSaves ==
    \A row \in Rows :
        resp[row].kind = "RequestException" =>
            /\ Len(LogsOf(row)) = 1
            /\ row \notin written /\ sheet[row] = original[row]
            /\ (pc \in {"check", "save", "finished", "exited"} /\ ~StoppedInLoop)
                => \A later \in UrlRows : Called(later)
            /\ (Returned /\ stopAt.pc = "none")
                => saveOutcome = "ok" /\ disk = sheet

\* C6, amended: as stated, except that an uncancelled run still calls the
\* save at the end, which persists the workbook unless the save itself raises.
C6_RequestErrorRunGoesOn ==
    \A row \in Rows :
        resp[row].kind = "RequestException" =>
            /\ LogKinds(row) = <<"request_error">>
            /\ row \notin written /\ sheet[row] = original[row]
            /\ (pc \in {"check", "save", "finished", "exited"} /\ ~StoppedInLoop)
                => \A later \in UrlRows : Called(later)
            /\ (Returned /\ stopAt.pc = "none")
                => /\ saveOutcome # "none"
                   /\ saveOutcome = "ok" => disk = sheet /\ Terminal = "Completed"

C6_Witness ==
    /\ pc = "exited" /\ stopAt.pc = "none" /\ saveOutcome = "ok"
    /\ \E row, later \in Rows :
        /\ row < later
        /\ resp[row].kind = "RequestException"
        /\ later \in written
        /\ disk[later] \in ShortUrls /\ disk[row] = OldOutput

\* C7: in every state, every output cell the worker has written belongs to a
\* row whose URL cell is non-empty and whose API call returned status 200;
\* every other row's output cell is as the workbook was loaded.
C7_WrittenOnlyOnSuccess ==
    \A row \in Rows :
        /\ row \in written =>
            /\ urlColumn[row] # None
            /\ resp[row].kind = "json" /\ resp[row].status = 200
        /\ (row \notin written /\ pc # "start" /\ fileState = "present")
            => sheet[row] = original[row]

C7_Witness ==
    /\ pc = "exited"
    /\ \E a, b, c \in Rows :
        /\ a \in written /\ sheet[a] # original[a]
        /\ urlColumn[b] = None
        /\ resp[c].kind = "RequestException" \/ resp[c].status = 400

\* C8: when stop() is requested while the API call of row k is in flight, the
\* call is not interrupted and its result is handled as usual (in-memory write
\* on status 200, one log line), and no progress event, API call or log line
\* is produced for any row after k.
C8_StopDuringCall ==
    stopAt.pc = "request" =>
        LET row == urls_to_shorten[stopAt.i + 1] IN
        /\ i <= stopAt.i + 1
        /\ i = stopAt.i => pc = "request" /\ ~Called(row)
        /\ i = stopAt.i + 1 =>
            /\ Called(row)
            /\ Len(LogsOf(row)) = 1
            /\ (resp[row].kind = "json" /\ resp[row].status = 200)
                => /\ row \in written
                   /\ sheet[row] = resp[row].shorturl
                   /\ LogKinds(row) = <<"success">>
        /\ \A k \in (stopAt.i + 2)..total_urls :
            LET later == urls_to_shorten[k] IN
            /\ ~Called(later)
            /\ Len(LogsOf(later)) = 0
            /\ \A n \in 1..Len(events) : events[n].row # later

C8_Witness ==
    /\ stopAt.pc = "request" /\ stopAt.i = 0 /\ total_urls >= 2
    /\ pc = "exited"
    /\ urls_to_shorten[1] \in written
    /\ sheet[urls_to_shorten[1]] \in ShortUrls

\* C9, as stated: the workbook is saved to disk if and only if the run found
\* at least one URL, the row loop ended without an uncaught exception and no
\* cancellation had been requested by the post-loop check; a cancellation
\* requested before that check prevents the save and yields 'interrupted'.
C9_SavedIffLoopEndedUncancelled ==
    Returned =>
        /\ (saveOutcome = "ok" /\ disk = sheet)
            <=> (total_urls >= 1 /\ LoopEnded /\ ~StoppedBeforeCheck)
        /\ (StoppedBeforeCheck /\ LoopEnded)
            => saveOutcome = "none" /\ Terminal = "Interrupted"

\* C9, amended: the save is called if and only if the run found at least one
\* URL, the row loop ended without an uncaught exception and no cancellation
\* had been requested by the post-loop check; the workbook is then saved to
\* disk unless the save itself raises.  A cancellation requested before that
\* check prevents the save and yields 'interrupted'.
C9_SaveCalledIffLoopEndedUncancelled ==
    /\ saveOutcome # "none" => Returned
    /\ saveOutcome # "ok" => disk = original
    /\ Returned =>
        /\ saveOutcome # "none"
            <=> (total_urls >= 1 /\ LoopEnded /\ ~StoppedBeforeCheck)
        /\ saveOutcome = "ok" => disk = sheet /\ Terminal = "Completed"
        /\ (StoppedBeforeCheck /\ LoopEnded)
            => saveOutcome = "none" /\ Terminal = "Interrupted"

C9_Witness ==
    /\ stopAt.pc = "check" /\ pc = "exited"
    /\ written # {} /\ sheet # original
    /\ \A row \in UrlRows : Called(row)
    /\ Terminal = "Interrupted"

\* C10: on a workbook with no non-empty URL cell the run emits no progress
\* event and no log line, makes no API call, does not save, and emits exactly
\* one terminal message, the 'no URLs found' one.
C10_NoUrls ==
    (fileState = "present" /\ N = 0) =>
        /\ Len(ProgressEvents) = 0
        /\ \A row \in Rows : Len(LogsOf(row)) = 0 /\ ~Called(row)
        /\ saveOutcome = "none" /\ pc # "save" /\ disk = original
        /\ pc # "start" => Returned /\ events = <<FinishedEvent("NoUrls")>>

C10_Witness ==
    /\ fileState = "present" /\ N = 0
    /\ pc = "exited"
    /\ original[FirstRow] = OldOutput
    /\ events = <<FinishedEvent("NoUrls")>>

\* A row's API call ended in anything but a status 200 answer.
Succeeded(row) == resp[row].kind = "json" /\ resp[row].status = 200
Failed(row) == Called(row) /\ ~Succeeded(row)
MixedRun ==
    /\ Returned /\ stopAt.pc = "none"
    /\ \E a, b \in UrlRows : Succeeded(a) /\ Failed(b)

C13_MissingFile ==
    fileState = "missing" =>
        /\ events = IF pc = "start" THEN <<>> ELSE <<FinishedEvent("FileNotFound")>>
        /\ pc \in {"start", "finished", "exited"}
        /\ \A row \in Rows : ~Called(row)
        /\ written = {}
        /\ saveOutcome = "none" /\ disk = original /\ ~fileDamaged

C13_Witness ==
    /\ fileState = "missing" /\ pc = "exited"
    /\ events = <<FinishedEvent("FileNotFound")>>

\* C18: for each processed row the events are, in this order, the row's
\* progress event, the API call, exactly one log line; the events of a row
\* all precede those of the next, rows are processed in increasing row order,
\* and the terminal message follows the events of every processed row.
C18_EventOrder ==
    /\ \A k \in 1..Len(events) :
        /\ (IsProgress(events[k]) /\ events[k].row # 0) =>
            \* the call is in flight, or its one log line comes next
            IF k = Len(events)
            THEN /\ pc = "request"
                 /\ events[k].row = urls_to_shorten[i + 1]
                 /\ ~Called(events[k].row)
            ELSE /\ IsLog(events[k + 1])
                 /\ events[k + 1].row = events[k].row
                 /\ Called(events[k].row)
        /\ IsLog(events[k]) =>
            /\ k > 1 /\ IsProgress(events[k - 1])
            /\ events[k - 1].row = events[k].row
        /\ IsFinished(events[k]) => k = Len(events)
        /\ \A n \in 1..Len(events) :
            (k < n /\ events[k].row # 0 /\ events[n].row # 0)
                => events[k].row <= events[n].row
    /\ \A row \in Rows : Called(row) <=> Len(LogsOf(row)) = 1
    /\ \A row \in Rows : Len(LogsOf(row)) <= 1

C18_Witness ==
    /\ pc = "exited" /\ total_urls >= 2
    /\ Len(events) = 2 * total_urls + 2
    /\ \A row \in UrlRows : Called(row)

\* C20, as stated: the 'completed, file saved' message is emitted only after
\* the save has returned successfully; if the save raises, the terminal
\* message is the generic unexpected-error message; a run that emits the
\* 'interrupted', 'no URLs found' or error message has never performed a save.
C20_SaveFailureIsGeneric ==
    /\ (\E k \in 1..Len(events) : events[k] = FinishedEvent("Completed"))
        => saveOutcome = "ok" /\ disk = sheet
    /\ saveOutcome \notin {"none", "ok"} => Terminal = "Unexpected"
    /\ (Returned /\ Terminal # "Completed") => saveOutcome # "ok" /\ disk = original

\* C20, amended: as stated, except that a save that raises ends the run with
\* an error message: the file-not-found message when it raises
\* FileNotFoundError, the generic unexpected-error message otherwise; and a
\* run that emits the 'interrupted', 'no URLs found' or an error message has
\* never completed a save.
C20_CompletedOnlyAfterSave ==
    /\ (\E k \in 1..Len(events) : events[k] = FinishedEvent("Completed"))
        => saveOutcome = "ok" /\ disk = sheet
    /\ saveOutcome = "FileNotFoundError" => Returned /\ Terminal = "FileNotFound"
    /\ saveOutcome = "Exception" => Returned /\ Terminal = "Unexpected"
    /\ (Returned /\ Terminal \in {"Interrupted", "NoUrls"}) => saveOutcome = "none"
    /\ (Returned /\ Terminal # "Completed") => saveOutcome # "ok" /\ disk = original

C20_Witness ==
    /\ pc = "exited" /\ saveOutcome = "FileNotFoundError"
    /\ written # {} /\ sheet # original
    /\ Terminal = "FileNotFound"

WorkerIds == 1..Len(workers)
RunningWorkers == {w \in WorkerIds : IsRunning(w)}

\* C12: when the window is closed while a worker is active, cancellation
\* is requested on that worker and the close event is accepted only after
\* the worker thread has exited, under every interleaving of the close with
\* the worker's queued finished signal.
C12_CloseWaitsForWorker ==
    /\ gui \in {"closing", "closed"} =>
          \A w \in RunningWorkers : ~workers[w].is_running
    /\ gui = "closed" => RunningWorkers = {}

\* The settings file gives start_shortening no key to use.
NoUsableKey ==
    \/ settings.state \in {"missing", "no_option"}
    \/ /\ settings.state = "key"
       /\ ~GetRaises(Strip(settings.value))
       /\ ReadKey(settings.value) = <<>>

\* The message start_shortening shows when it does not start a run.
RefusalMessage ==
    IF lineEdit_filepath = "" THEN "select_file"
    ELSE IF settings.state \in {"missing", "no_option"} THEN "no_api_key"
    ELSE "empty_api_key"

\* C14 as stated: with the settings file missing, without the api_key option
\* or holding an empty api_key, a click on start creates no worker; its only
\* effect is a user-visible message, and the worker reference is unchanged.
C14_OnlyAMessage ==
    [][(NoUsableKey /\ start_shortening) =>
          /\ workers' = workers
          /\ worker' = worker
          /\ textEdit_log' = <<RefusalMessage>>
          /\ UNCHANGED <<lineEdit_filepath, settings, pushButton_start,
                         progressBar, gui, lastAccepted>>]_vars

\* C14 (amended): with no usable key a click on start never creates a
\* worker and never changes the worker reference.  While no worker is
\* running its only effect is the message; while the referenced worker is
\* still running the click requests its cancellation instead and shows no
\* message.
C14_NoWorkerWithoutKey ==
    [][(NoUsableKey /\ start_shortening) =>
          /\ Len(workers') = Len(workers)
          /\ worker' = worker
          /\ UNCHANGED <<lineEdit_filepath, settings, progressBar, gui,
                         lastAccepted>>
          /\ IF worker # 0 /\ IsRunning(worker)
             THEN /\ workers' = Stopped(worker)
                  /\ textEdit_log' = textEdit_log
                  /\ pushButton_start' = "start"
             ELSE /\ workers' = workers
                  /\ textEdit_log' = <<RefusalMessage>>
                  /\ pushButton_start' = pushButton_start]_vars

C14_Witness ==
    /\ gui = "idle"
    /\ settings.state = "key" /\ ReadKey(settings.value) = <<>>
    /\ lineEdit_filepath = SelectedFile
    /\ textEdit_log = <<"empty_api_key">>
    /\ Len(workers) = 1 /\ ~IsRunning(1) /\ worker = 0

\* C15: after the settings dialog is accepted with key K, the next start
\* runs the worker with exactly K; a running worker keeps its key.
C15_SettingsRoundTrip ==
    \A w \in WorkerIds :
        workers[w].accepted # NoKey => workers[w].api_key = workers[w].accepted

\* C16: at most one worker is executing its run at any time;
\* start_shortening never starts a worker while an earlier one is still
\* running, and on_finished never drops the reference to a running worker.
C16_AtMostOneWorker ==
    /\ Cardinality(RunningWorkers) <= 1
    /\ \A w \in WorkerIds : ~workers[w].overlapped /\ ~workers[w].orphaned

\* C17: a click while the current worker is running only requests its
\* cancellation: no worker is created, the reference, the file path and the
\* key of every worker are unchanged; and the stop flag of a worker never
\* returns to 'continue'.
C17_ClickOnlyCancels ==
    /\ [][(worker # 0 /\ workers[worker].phase # "exited" /\ start_shortening) =>
             /\ workers' = Stopped(worker)
             /\ worker' = worker
             /\ UNCHANGED <<lineEdit_filepath, settings, textEdit_log,
                            progressBar, gui, lastAccepted>>]_vars
    /\ [][\A w \in WorkerIds :
             /\ workers'[w].filepath = workers[w].filepath
             /\ workers'[w].api_key = workers[w].api_key
             /\ ~workers[w].is_running => ~workers'[w].is_running]_vars

C17_Witness ==
    /\ gui = "idle"
    /\ worker # 0 /\ IsRunning(worker)
    /\ ~workers[worker].is_running
    /\ pushButton_start = "start"
    /\ settings.value # workers[worker].api_key

====
